---- MODULE Spec2Model ----
(***************************************************************************)
(* Model of ift/feature_registry/registry_to_cc.py: the script that turns  *)
(* the feature registry table into the DefaultFeatureTags() declaration.   *)
(*                                                                         *)
(* A string is a sequence of one-character strings.  A registry row is a   *)
(* record [tag, flag] holding columns 0 and 2 of the csv row; column 1 is  *)
(* never read by the script.  The script is sequential: pc is its position *)
(* and every action is one step of it.                                     *)
(***************************************************************************)
EXTENDS Integers, Sequences, FiniteSets, TLC

\* ------------------------------------------------------------------ bounds
\* longest table the model reads
MaxRows == 2
\* range rows ssAA-ssBB are generated for every AA, BB in 1..MaxNum
MaxNum == 3

\* --------------------------------------------------------------- characters
DigitChars == <<"0", "1", "2", "3", "4", "5", "6", "7", "8", "9">>

\* the class [0-9] of the pattern, and the digits int() accepts
Digit == {DigitChars[n] : n \in 1..10}

\* the class [a-z] of the pattern
Lower == {"a", "b", "c", "d", "e", "f", "g", "h", "i", "j", "k", "l", "m",
          "n", "o", "p", "q", "r", "s", "t", "u", "v", "w", "x", "y", "z"}

DigitVal(c) == (CHOOSE n \in 1..10 : DigitChars[n] = c) - 1

RECURSIVE DecVal(_)
\* value of a non-empty run of decimal digits, leading zeros allowed
DecVal(d) ==
  IF d = <<>> THEN 0
  ELSE DecVal(SubSeq(d, 1, Len(d) - 1)) * 10 + DigitVal(d[Len(d)])

RECURSIVE Strip(_)
\* int() ignores blanks around the number
Strip(s) ==
  IF s = <<>> THEN s
  ELSE IF s[1] = " " THEN Strip(Tail(s))
  ELSE IF s[Len(s)] = " " THEN Strip(SubSeq(s, 1, Len(s) - 1))
  ELSE s

\* int(row[2]): blanks, an optional sign, then at least one digit; anything
\* else raises ValueError (ok = FALSE).  The inputs of the model hold no
\* underscore and no non-ASCII digit.
IntParse(s) ==
  LET t == Strip(s)
      signed == Len(t) > 0 /\ t[1] \in {"+", "-"}
      d == IF signed THEN Tail(t) ELSE t
      ok == Len(d) > 0 /\ \A k \in 1..Len(d) : d[k] \in Digit
  IN  [ok |-> ok,
       val |-> IF ~ok THEN 0
               ELSE IF signed /\ t[1] = "-" THEN 0 - DecVal(d)
               ELSE DecVal(d)]

\* IsHeaderOrComment mutated to forget the comment rows
IsHeaderOnly(f) == f = <<"T", "a", "g">>

\* row[0] == "Tag" or row[0].startswith("#")
IsHeaderOrComment(f) ==
  \/ f = <<"T", "a", "g">>
  \/ (Len(f) > 0 /\ f[1] = "#")

\* the pattern [a-z]{2}([0-9]{2})-[a-z]{2}([0-9]{2}) matches f at offset p
MatchAt(f, p) ==
  /\ p >= 1
  /\ p + 8 <= Len(f)
  /\ f[p] \in Lower
  /\ f[p + 1] \in Lower
  /\ f[p + 2] \in Digit
  /\ f[p + 3] \in Digit
  /\ f[p + 4] = "-"
  /\ f[p + 5] \in Lower
  /\ f[p + 6] \in Lower
  /\ f[p + 7] \in Digit
  /\ f[p + 8] \in Digit

\* ReSearch mutated to re.fullmatch: the pattern must cover the whole field
ReFullMatch(f) ==
  IF Len(f) = 9 /\ MatchAt(f, 1)
  THEN [found |-> TRUE, g1 |-> SubSeq(f, 3, 4), g2 |-> SubSeq(f, 8, 9)]
  ELSE [found |-> FALSE, g1 |-> <<>>, g2 |-> <<>>]

\* re.search(pattern, row[0]): the leftmost place the pattern occurs
\* anywhere in the field, with its two groups
ReSearch(f) ==
  LET hits == {p \in 1..Len(f) : MatchAt(f, p)}
  IN  IF hits = {} THEN [found |-> FALSE, g1 |-> <<>>, g2 |-> <<>>]
      ELSE LET p == CHOOSE q \in hits : \A r \in hits : q <= r
           IN  [found |-> TRUE,
                g1 |-> SubSeq(f, p + 2, p + 3),
                g2 |-> SubSeq(f, p + 7, p + 8)]

\* RangeEnd mutated to take the distance between the two numbers
RangeEndAbs(i, m) ==
  LET d == DecVal(m.g2) - DecVal(m.g1)
  IN  i + (IF d < 0 THEN 0 - d ELSE d)

\* end = i + (int(m.group(2)) - int(m.group(1)))
RangeEnd(i, m) == i + (DecVal(m.g2) - DecVal(m.g1))

\* LiteralEnd mutated to an off-by-one
LiteralEndNext(i) == i + 1

\* end = i, on the branch taken when the pattern is not found
LiteralEnd(i) == i

\* LiteralTag mutated to copy the whole field
LiteralTagVerbatim(f) == f

\* the four characters row[0][0] .. row[0][3] placed in HB_TAG(...)
LiteralTag(f) == <<f[1], f[2], f[3], f[4]>>

\* Emit mutated to put the new line first
EmitFirst(o, line) == <<line>> \o o

\* print(...): the line goes after everything printed so far
Emit(o, line) == Append(o, line)

\* ------------------------------------------------------------------ inputs
\* n rendered as two decimal digits, the way the registry writes a number
Fmt2(n) == <<DigitChars[(n \div 10) + 1], DigitChars[(n % 10) + 1]>>

\* the registry's notation for a family: ssAA-ssBB
RangeField(a, b) == <<"s", "s">> \o Fmt2(a) \o <<"-", "s", "s">> \o Fmt2(b)

\* tag fields given the default flag 1
DefaultFields ==
  {RangeField(a, b) : a, b \in 1..MaxNum}
  \cup {RangeField(9, 10),
        <<"a", "b", "c", "d">>,
        <<"a", "b", "c", "d", "e">>,
        <<"a", "b">>,
        <<"s", "s", "0", "1", "-", "s", "s", "2">>,
        <<"x", "s", "s", "0", "1", "-", "s", "s", "0", "2">>,
        <<"x", "s", "s", "0", "1", "-", "s", "s", "0", "1">>,
        <<"c", "v", "0", "1", "-", "c", "v", "0", "2", "y">>,
        <<"s", "s", "0", "1", "-", "t", "t", "0", "2">>}

\* flag columns other than the plain "1"
OtherFlags == {<<"0">>, <<"2">>, <<"x">>, <<>>, <<" ", "0", "1">>, <<"-", "1">>}

\* the rows a table is made of
RowSet ==
  [tag : DefaultFields, flag : {<<"1">>}]
  \cup [tag : {<<"a", "b", "c", "d">>, RangeField(1, 2)}, flag : OtherFlags]
  \cup [tag : {<<"T", "a", "g">>, <<"#", "a", "b", "c">>, <<"#">>},
        flag : {<<"1">>, <<"x">>}]

Tables == UNION {[1..n -> RowSet] : n \in 0..MaxRows}

\* ------------------------------------------------------------------- state
VARIABLES
  rows,     \* lines: the rows read from the table, in file order
  pc,       \* position of the script
  idx,      \* index in lines of the row the for loop is at
  i,        \* the running counter i
  start,    \* start of the current row
  end,      \* end of the current row
  v,        \* loop variable of "for v in range(start, end + 1)"
  out,      \* the lines printed so far
  contrib,  \* history: contrib[k] = the tags printed while at row k
  err       \* the exception that ended the script, "" if none

vars == <<rows, pc, idx, i, start, end, v, out, contrib, err>>

PreambleLine == [kind |-> "preamble", tag |-> <<>>]
FooterLine == [kind |-> "footer", tag |-> <<>>]
TagLine(t) == [kind |-> "tag", tag |-> t]

Init ==
  /\ rows \in Tables
  /\ pc = "preamble"
  /\ idx = 1
  /\ i = 1
  /\ start = 0
  /\ end = 0
  /\ v = 0
  /\ out = <<>>
  /\ contrib = [k \in 1..Len(rows) |-> <<>>]
  /\ err = ""

AtRow == pc = "row" /\ idx <= Len(rows)

\* the opening of the declaration is printed, then print_set() reads the
\* table and sets i = 1
PrintPreamble ==
  /\ pc = "preamble"
  /\ out' = Emit(out, PreambleLine)
  /\ pc' = "row"
  /\ UNCHANGED <<rows, idx, i, start, end, v, contrib, err>>

\* header and comment rows: continue
SkipHeaderOrComment ==
  /\ AtRow
  /\ IsHeaderOrComment(rows[idx].tag)
  /\ idx' = idx + 1
  /\ UNCHANGED <<rows, pc, i, start, end, v, out, contrib, err>>

\* int(row[2]) raises ValueError, which nothing catches
BadFlag ==
  /\ AtRow
  /\ ~IsHeaderOrComment(rows[idx].tag)
  /\ ~IntParse(rows[idx].flag).ok
  /\ pc' = "aborted"
  /\ err' = "ValueError"
  /\ UNCHANGED <<rows, idx, i, start, end, v, out, contrib>>

\* int(row[2]) != 1: continue
SkipNotDefault ==
  /\ AtRow
  /\ ~IsHeaderOrComment(rows[idx].tag)
  /\ IntParse(rows[idx].flag).ok
  /\ IntParse(rows[idx].flag).val # 1
  /\ idx' = idx + 1
  /\ UNCHANGED <<rows, pc, i, start, end, v, out, contrib, err>>

IsDefaultRow ==
  /\ AtRow
  /\ ~IsHeaderOrComment(rows[idx].tag)
  /\ IntParse(rows[idx].flag).ok
  /\ IntParse(rows[idx].flag).val = 1

\* the pattern is found: start = i, end = i + (g2 - g1), i += end - start + 1
ClassifyRange ==
  /\ IsDefaultRow
  /\ ReSearch(rows[idx].tag).found
  /\ start' = i
  /\ end' = RangeEnd(i, ReSearch(rows[idx].tag))
  /\ i' = i + (end' - start' + 1)
  /\ v' = start'
  /\ pc' = "for"
  /\ UNCHANGED <<rows, idx, out, contrib, err>>

\* the pattern is not found: start = end = i, i += 1
ClassifyLiteral ==
  /\ IsDefaultRow
  /\ ~ReSearch(rows[idx].tag).found
  /\ start' = i
  /\ end' = LiteralEnd(i)
  /\ i' = i + 1
  /\ v' = start'
  /\ pc' = "for"
  /\ UNCHANGED <<rows, idx, out, contrib, err>>

InFor == pc = "for" /\ v <= end

\* start == end: the tag is the first four characters of the field
EmitLiteral ==
  /\ InFor
  /\ start = end
  /\ Len(rows[idx].tag) >= 4
  /\ out' = Emit(out, TagLine(LiteralTag(rows[idx].tag)))
  /\ contrib' = [contrib EXCEPT ![idx] = Append(@, LiteralTag(rows[idx].tag))]
  /\ v' = v + 1
  /\ UNCHANGED <<rows, pc, idx, i, start, end, err>>

\* start == end and the field has fewer than four characters: row[0][k]
\* raises IndexError
LiteralIndexError ==
  /\ InFor
  /\ start = end
  /\ Len(rows[idx].tag) < 4
  /\ pc' = "aborted"
  /\ err' = "IndexError"
  /\ UNCHANGED <<rows, idx, i, start, end, v, out, contrib>>

\* start != end: the f-string reads v_str, a name nothing binds, and
\* raises NameError
RangeNameError ==
  /\ InFor
  /\ start # end
  /\ pc' = "aborted"
  /\ err' = "NameError"
  /\ UNCHANGED <<rows, idx, i, start, end, v, out, contrib>>

\* range(start, end + 1) is exhausted: on to the next row
ForDone ==
  /\ pc = "for"
  /\ v > end
  /\ pc' = "row"
  /\ idx' = idx + 1
  /\ UNCHANGED <<rows, i, start, end, v, out, contrib, err>>

\* print_set() returns and the closing of the declaration is printed
PrintFooter ==
  /\ pc = "row"
  /\ idx > Len(rows)
  /\ out' = Emit(out, FooterLine)
  /\ pc' = "done"
  /\ UNCHANGED <<rows, idx, i, start, end, v, contrib, err>>

Next ==
  \/ PrintPreamble
  \/ SkipHeaderOrComment
  \/ BadFlag
  \/ SkipNotDefault
  \/ ClassifyRange
  \/ ClassifyLiteral
  \/ EmitLiteral
  \/ LiteralIndexError
  \/ RangeNameError
  \/ ForDone
  \/ PrintFooter

Spec == Init /\ [][Next]_vars


\* ------------------------------------------------- vocabulary of the claims
\* the script raised an exception while at row k
AbortedAt(k) == pc = "aborted" /\ idx = k

\* the script is through with row k: it moved past it or died at it
Ended(k) == k < idx \/ AbortedAt(k)

\* header or comment row, as the registry format defines it
HeaderRow(r) == r.tag = <<"T", "a", "g">> \/ (r.tag # <<>> /\ Head(r.tag) = "#")

\* a row of the default set: not header or comment, flag equal to 1
DefaultRow(r) ==
  /\ ~HeaderRow(r)
  /\ IntParse(r.flag).ok
  /\ IntParse(r.flag).val = 1

\* the whole field is <2 letters><2 digits>-<2 letters><2 digits>
WholeShape(f) == Len(f) = 9 /\ MatchAt(f, 1)

\* the range shape occurs somewhere in the field
ContainsShape(f) == \E p \in 1..Len(f) : MatchAt(f, p)

\* the field begins like a range, <2 letters><2 digits>-, or holds one,
\* without being one
PartlyShaped(f) ==
  /\ ~WholeShape(f)
  /\ \/ ContainsShape(f)
     \/ /\ Len(f) >= 5
        /\ f[1] \in Lower /\ f[2] \in Lower
        /\ f[3] \in Digit /\ f[4] \in Digit
        /\ f[5] = "-"

\* the two numbers of a field of the range shape
StartOf(f) == DecVal(SubSeq(f, 3, 4))
EndOf(f) == DecVal(SubSeq(f, 8, 9))

\* the two numbers of the leftmost range shape inside the field
FirstShape(f) == CHOOSE p \in 1..Len(f) :
                   MatchAt(f, p) /\ \A q \in 1..Len(f) : MatchAt(f, q) => p <= q
InnerStart(f) == DecVal(SubSeq(f, FirstShape(f) + 2, FirstShape(f) + 3))
InnerEnd(f) == DecVal(SubSeq(f, FirstShape(f) + 7, FirstShape(f) + 8))

FirstFour(f) == SubSeq(f, 1, 4)

\* the tags among the printed lines, in the order printed
TagsOf(o) ==
  LET t == SelectSeq(o, LAMBDA l : l.kind = "tag")
  IN  [n \in 1..Len(t) |-> t[n].tag]

RECURSIVE Concat(_, _)
\* c[1] \o c[2] \o ... \o c[n]
Concat(c, n) == IF n = 0 THEN <<>> ELSE Concat(c, n - 1) \o c[n]

Rows == 1..Len(rows)

\* ------------------------------------------------------------------ claims
\* C1 (as stated): a default row whose field is a range with start <= end
\* contributes the tags prefix+start, ..., prefix+end, each number as two
\* zero-padded digits, ascending.
C1_RangeExpansion ==
  \A k \in Rows :
    (/\ Ended(k)
     /\ DefaultRow(rows[k])
     /\ WholeShape(rows[k].tag)
     /\ StartOf(rows[k].tag) <= EndOf(rows[k].tag))
    => contrib[k] =
         [n \in 1..(EndOf(rows[k].tag) - StartOf(rows[k].tag) + 1) |->
            SubSeq(rows[k].tag, 1, 2) \o Fmt2(StartOf(rows[k].tag) + n - 1)]

\* C2 (as stated): a default row whose field is not a range contributes
\* exactly one tag, the field itself whatever its length, and no error is
\* raised.
C2_VerbatimLiteral ==
  \A k \in Rows :
    (Ended(k) /\ DefaultRow(rows[k]) /\ ~WholeShape(rows[k].tag))
    => (contrib[k] = <<rows[k].tag>> /\ ~AbortedAt(k))

\* C2 (amended): a default row in whose field the range shape occurs
\* nowhere contributes exactly one tag, the first four characters of the
\* field, when the field has at least four characters; a shorter field
\* raises IndexError and contributes nothing.
C2_FirstFourLiteral ==
  \A k \in Rows :
    (Ended(k) /\ DefaultRow(rows[k]) /\ ~ContainsShape(rows[k].tag))
    => IF Len(rows[k].tag) >= 4
       THEN contrib[k] = <<FirstFour(rows[k].tag)>> /\ ~AbortedAt(k)
       ELSE contrib[k] = <<>> /\ AbortedAt(k) /\ err = "IndexError"

\* a five-character literal field went through and left its first four
\* characters
C2_Witness ==
  \E k \in Rows :
    /\ k < idx
    /\ DefaultRow(rows[k])
    /\ ~ContainsShape(rows[k].tag)
    /\ Len(rows[k].tag) > 4
    /\ contrib[k] = <<FirstFour(rows[k].tag)>>

\* C3 (as stated): when the flag of a row that is neither header nor
\* comment is not an integer the script aborts, the row is never skipped,
\* and nothing at all has been printed.
C3_FatalNoOutput ==
  /\ \A k \in Rows :
       (k < idx /\ ~HeaderRow(rows[k])) => IntParse(rows[k].flag).ok
  /\ \A k \in Rows :
       (AbortedAt(k) /\ ~HeaderRow(rows[k]) /\ ~IntParse(rows[k].flag).ok)
       => out = <<>>

\* C4 (as stated): a row, neither header nor comment, whose flag is an
\* integer other than 1 contributes no tag, and one whose flag is 1
\* contributes at least one.
C4_DefaultFlagFilter ==
  \A k \in Rows :
    (Ended(k) /\ ~HeaderRow(rows[k]) /\ IntParse(rows[k].flag).ok)
    => IF IntParse(rows[k].flag).val = 1
       THEN Len(contrib[k]) >= 1
       ELSE contrib[k] = <<>>

\* C5: a header or comment row contributes no tag and never raises the
\* flag error, whatever its flag column holds; a table of such rows only
\* ends with no tag printed.
C5_HeaderCommentSkipped ==
  /\ \A k \in Rows :
       HeaderRow(rows[k]) => (contrib[k] = <<>> /\ ~AbortedAt(k))
  /\ (\A k \in Rows : HeaderRow(rows[k]))
       => (pc # "aborted" /\ TagsOf(out) = <<>>)

\* a table of a header and a comment whose flags are not integers was
\* compiled to the end
C5_Witness ==
  /\ pc = "done"
  /\ Len(rows) >= 2
  /\ \A k \in Rows : HeaderRow(rows[k]) /\ ~IntParse(rows[k].flag).ok
  /\ \E k \in Rows : rows[k].tag # <<"T", "a", "g">>
  /\ TagsOf(out) = <<>>

\* C6: the tags printed are the tags of row 1, then those of row 2, and so
\* on in table order, all of them, duplicates included; the opening of the
\* declaration comes before them and the closing after.
C6_RowOrder ==
  /\ TagsOf(out) = Concat(contrib, Len(rows))
  /\ \A n \in 1..Len(out) :
       /\ (out[n].kind = "preamble") <=> (n = 1)
       /\ (out[n].kind = "footer") <=> (pc = "done" /\ n = Len(out))

\* two identical rows each left their tag, after the tag of neither being
\* dropped
C6_Witness ==
  /\ pc = "done"
  /\ Len(rows) = 2
  /\ rows[1] = rows[2]
  /\ contrib[1] # <<>>
  /\ TagsOf(out) = contrib[1] \o contrib[2]
  /\ Len(TagsOf(out)) = 2

\* C7: a default range row whose end number is below its start number
\* contributes no tag and raises nothing; the loop over its values is empty
\* and the script goes on to the next row.
C7_ReversedRangeEmpty ==
  \A k \in Rows :
    (/\ DefaultRow(rows[k])
     /\ WholeShape(rows[k].tag)
     /\ EndOf(rows[k].tag) < StartOf(rows[k].tag))
    => /\ contrib[k] = <<>>
       /\ ~AbortedAt(k)
       /\ (pc = "for" /\ idx = k) => v > end

\* a reversed range row was passed without a tag and the row after it
\* left its tag
C7_Witness ==
  \E k \in Rows :
    /\ k + 1 < idx
    /\ DefaultRow(rows[k])
    /\ WholeShape(rows[k].tag)
    /\ EndOf(rows[k].tag) < StartOf(rows[k].tag)
    /\ contrib[k] = <<>>
    /\ contrib[k + 1] # <<>>

\* C8: every tag printed has exactly four characters.
C8_FourCharTags ==
  \A n \in 1..Len(out) : out[n].kind = "tag" => Len(out[n].tag) = 4

\* a tag was printed for a field longer than four characters and another
\* for a range row
C8_Witness ==
  /\ \E k \in Rows : Len(rows[k].tag) = 5 /\ contrib[k] # <<>>
  /\ \E k \in Rows : WholeShape(rows[k].tag) /\ contrib[k] # <<>>

\* C9 (as stated): what a row contributes depends on the row alone: equal
\* rows the script is through with contributed equal tags, and the numbers
\* in the tags of a range row are start..end of the row's own digits.
C9_RowIndependence ==
  /\ \A j, k \in Rows :
       (Ended(j) /\ Ended(k) /\ rows[j] = rows[k]) => contrib[j] = contrib[k]
  /\ \A k \in Rows :
       (Ended(k) /\ DefaultRow(rows[k]) /\ WholeShape(rows[k].tag))
       => /\ Len(contrib[k]) =
               (IF EndOf(rows[k].tag) < StartOf(rows[k].tag) THEN 0
                ELSE EndOf(rows[k].tag) - StartOf(rows[k].tag) + 1)
          /\ \A n \in 1..Len(contrib[k]) :
               DecVal(SubSeq(contrib[k][n], 3, 4)) = StartOf(rows[k].tag) + n - 1

\* C10 (as stated): a default row whose field partly resembles a range
\* without being one as a whole contributes exactly one tag, the field, and
\* no error is raised.
C10_PartialIsLiteral ==
  \A k \in Rows :
    (Ended(k) /\ DefaultRow(rows[k]) /\ PartlyShaped(rows[k].tag))
    => (contrib[k] = <<rows[k].tag>> /\ ~AbortedAt(k))

\* C10 (amended): a partly range-shaped field goes to the literal branch
\* only if the range shape occurs nowhere inside it; the row then
\* contributes exactly one tag, the first four characters of the field,
\* without error.  A field with extra characters around a range-shaped
\* substring is classified as a range row: end - start is the difference of
\* the two numbers of the leftmost such substring.
C10_PartialBySearch ==
  \A k \in Rows :
    (DefaultRow(rows[k]) /\ PartlyShaped(rows[k].tag))
    => IF ContainsShape(rows[k].tag)
       THEN (idx = k /\ pc \in {"for", "aborted"})
            => end - start = InnerEnd(rows[k].tag) - InnerStart(rows[k].tag)
       ELSE /\ ~AbortedAt(k)
            /\ k < idx => contrib[k] = <<FirstFour(rows[k].tag)>>

\* a near-range field left its first four characters and the row after it,
\* a range with a character in front, was classified with end # start
C10_Witness ==
  \E k \in Rows :
    /\ k + 1 = idx
    /\ pc = "for"
    /\ PartlyShaped(rows[k].tag)
    /\ ~ContainsShape(rows[k].tag)
    /\ contrib[k] = <<FirstFour(rows[k].tag)>>
    /\ PartlyShaped(rows[idx].tag)
    /\ ContainsShape(rows[idx].tag)
    /\ end # start
====
